---- MODULE Spec2Model ----
(***************************************************************************)
(* fs-swap: swap() and swap_nonatomic() of src/src/lib.rs over a small     *)
(* filesystem.  Every filesystem call of the source (fs::metadata,         *)
(* fs::remove_dir_all, fs::remove_file, fs::rename) is one atomic action;  *)
(* each call may fail with an I/O error chosen by the environment.         *)
(***************************************************************************)
EXTENDS Integers, Sequences, FiniteSets, TLC

(* Number of sequential calls the single caller of Spec makes. *)
MaxCalls == 2

Procs == {1, 2}

-----------------------------------------------------------------------------
(* Paths are sequences of components, as std::path::Path sees them.        *)

TMP_SWAP_FILE == "tmp.fs_swap"

NoPath == <<"<none>">>
Root == <<"/">>
Empty == <<>>
PA == <<"d", "a">>
PB == <<"d", "b">>
PC == <<"d", "c">>
PD == <<"d", "d">>
PT == <<"d", TMP_SWAP_FILE>>

(* The entries of directory d that the model tracks. *)
FsPaths == {PA, PB, PC, PD, PT}

(* Path::parent: None for the root and for the empty path, else the path  *)
(* without its last component.                                             *)
parent(p) ==
    IF p = Empty \/ p = Root THEN NoPath ELSE SubSeq(p, 1, Len(p) - 1)

(* Path::join with a relative component. *)
join(dir, name) == Append(dir, name)

(* lib.rs 27-30 with the parent of a dropped: a mutant of TmpPath. *)
TmpPath_JoinOnNone(pa, pb) ==
    IF parent(pa) # NoPath THEN join(parent(pa), TMP_SWAP_FILE)
    ELSE join(Empty, TMP_SWAP_FILE)

(* lib.rs 27-30: a.parent().or_else(|| b.parent()) ... .join(TMP_SWAP_FILE); *)
(* NoPath stands for the ok_or_else error.                                  *)
TmpPath(pa, pb) ==
    IF parent(pa) # NoPath THEN join(parent(pa), TMP_SWAP_FILE)
    ELSE IF parent(pb) # NoPath THEN join(parent(pb), TMP_SWAP_FILE)
    ELSE NoPath

-----------------------------------------------------------------------------
(* Filesystem entries and the filesystem calls.                            *)

Absent == [kind |-> "absent", content |-> "-"]
File(c) == [kind |-> "file", content |-> c]
Dir(c) == [kind |-> "dir", content |-> c]
RootEntry == Dir("/")
(* What a failed remove_dir_all may leave behind. *)
Partial == Dir("partial")

Lookup(f, p) ==
    IF p \in DOMAIN f THEN f[p]
    ELSE IF p = Root THEN RootEntry
    ELSE Absent

(* fs::metadata(p): the kind of the entry, NotFound, or an I/O error. *)
Metadata(f, p) ==
    { IF Lookup(f, p) = Absent THEN "NotFound" ELSE Lookup(f, p).kind, "Io" }

(* Outcome of a call: res, the filesystem after it, and the content the   *)
(* call destroyed ("-" when none).                                         *)
Out(r, f, l) == [res |-> r, fs |-> f, lost |-> l]

(* fs::rename(src, dst), std semantics: the source must exist; an existing *)
(* file is replaced by a file; any other existing destination refuses.     *)
(* A failed rename changes nothing.                                        *)
Rename(f, src, dst) ==
    LET s == Lookup(f, src)
        d == Lookup(f, dst)
        genuine ==
            IF s = Absent THEN Out("NotFound", f, "-")
            ELSE IF src \notin DOMAIN f \/ dst \notin DOMAIN f
                 THEN Out(IF dst = Empty THEN "NotFound" ELSE "Io", f, "-")
            ELSE IF src = dst THEN Out("ok", f, "-")
            ELSE IF d = Absent
                 THEN Out("ok", [f EXCEPT ![dst] = s, ![src] = Absent], "-")
            ELSE IF s.kind = "file" /\ d.kind = "file"
                 THEN Out("ok", [f EXCEPT ![dst] = s, ![src] = Absent], d.content)
            ELSE Out("Io", f, "-")
    IN  {genuine, Out("Io", f, "-")}

(* The renames of lib.rs 44 and 67, whose source "might still be there on *)
(* Windows" (lib.rs 46, 77): besides the outcomes of Rename, a successful  *)
(* rename that leaves the source entry in place.                           *)
RenameMayLinger(f, src, dst) ==
    Rename(f, src, dst) \cup
    { Out("ok", [o.fs EXCEPT ![src] = f[src]], o.lost) :
        o \in { x \in Rename(f, src, dst) : x.res = "ok" /\ src # dst } }

(* fs::remove_file(p). *)
RemoveFile(f, p) ==
    LET e == Lookup(f, p)
        genuine ==
            IF e = Absent THEN Out("NotFound", f, "-")
            ELSE IF e.kind # "file" \/ p \notin DOMAIN f THEN Out("Io", f, "-")
            ELSE Out("ok", [f EXCEPT ![p] = Absent], e.content)
    IN  {genuine, Out("Io", f, "-")}

(* fs::remove_dir_all(p): on failure the tree is untouched or partly gone. *)
RemoveDirAll(f, p) ==
    LET e == Lookup(f, p)
    IN  IF e = Absent THEN {Out("NotFound", f, "-"), Out("Io", f, "-")}
        ELSE IF e.kind # "dir" \/ p \notin DOMAIN f THEN {Out("Io", f, "-")}
        ELSE { Out("ok", [f EXCEPT ![p] = Absent], e.content),
               Out("Io", f, "-"),
               Out("Io", [f EXCEPT ![p] = Partial], e.content) }


-----------------------------------------------------------------------------
(* State.                                                                  *)

VARIABLES
    fs,       \* the filesystem: FsPaths -> entry
    pc,       \* per caller: "idle" or the statement of lib.rs it is about to run
    a, b,     \* per caller: the operands of its calls
    api,      \* per caller: the public function it calls
    tmp,      \* per caller: the local `tmp` of swap_nonatomic
    meta,     \* per caller: the kind the last fs::metadata probe reported
    result,   \* per caller: what its last call returned
    atomic,   \* per caller: outcome of the atomic attempt of swap ("none" if not made)
    entered,  \* per caller: swap_nonatomic has been entered in this call
    ops,      \* per caller: the filesystem calls of this call, with their results
    fs0,      \* per caller: the filesystem when this call began
    prev,     \* per caller: fs0 and result of its previous call
    left,     \* per caller: calls it may still make
    killer    \* per content: the callers and filesystem calls that destroyed a copy of it

vars == <<fs, pc, a, b, api, tmp, meta, result, atomic, entered, ops, fs0, prev, left, killer>>

Contents == {"A1", "B1", "A2", "B2", "S", "partial"}

NoResult == [kind |-> "none", at |-> "-"]
Ok == [kind |-> "Ok", at |-> "-"]
Err(k, op) == [kind |-> k, at |-> op]
NoPrev == [valid |-> FALSE, fs0 |-> <<>>, result |-> NoResult]

(* The operand paths a caller may pass as a and as b. *)
ArgsA == {PA, PT, Root}
ArgsB == {PB, PT, Root}
Apis == {"swap", "swap_nonatomic"}

InitCommon ==
    /\ pc = [p \in Procs |-> "idle"]
    /\ tmp = [p \in Procs |-> NoPath]
    /\ meta = [p \in Procs |-> "-"]
    /\ result = [p \in Procs |-> NoResult]
    /\ atomic = [p \in Procs |-> "none"]
    /\ entered = [p \in Procs |-> FALSE]
    /\ ops = [p \in Procs |-> <<>>]
    /\ fs0 = [p \in Procs |-> fs]
    /\ prev = [p \in Procs |-> NoPrev]
    /\ killer = [c \in Contents |-> {}]

(* One caller making MaxCalls calls of one public function in sequence on  *)
(* one pair of operands.                                                   *)
Init ==
    /\ \E ea \in {Absent, File("A1"), Dir("A1")},
          eb \in {Absent, File("B1"), Dir("B1")},
          et \in {Absent, File("S"), Dir("S")} :
          fs = (PA :> ea) @@ (PB :> eb) @@ (PC :> File("A2")) @@ (PD :> File("B2"))
               @@ (PT :> et)
    /\ \E x \in ArgsA, y \in ArgsB : a = (1 :> x) @@ (2 :> PC) /\ b = (1 :> y) @@ (2 :> PD)
    /\ \E f \in Apis : api = [p \in Procs |-> f]
    /\ left = (1 :> MaxCalls) @@ (2 :> 0)
    /\ InitCommon

(* Two callers, one call each, on different entries of the same directory. *)
InitConc ==
    /\ \E ea \in {File("A1"), Dir("A1")} :
          fs = (PA :> ea) @@ (PB :> File("B1")) @@ (PC :> File("A2")) @@ (PD :> File("B2"))
               @@ (PT :> Absent)
    /\ a = (1 :> PA) @@ (2 :> PC)
    /\ b = (1 :> PB) @@ (2 :> PD)
    /\ api \in [Procs -> Apis]
    /\ left = (1 :> 1) @@ (2 :> 1)
    /\ InitCommon

-----------------------------------------------------------------------------
(* Bookkeeping shared by the actions.                                      *)

Goto(p, l) == pc' = [pc EXCEPT ![p] = l] /\ UNCHANGED result
Return(p, r) == pc' = [pc EXCEPT ![p] = "idle"] /\ result' = [result EXCEPT ![p] = r]
Log(p, op, r) == ops' = [ops EXCEPT ![p] = Append(@, [op |-> op, res |-> r])]
Kill(p, op, c) ==
    killer' = IF c = "-" THEN killer
              ELSE [killer EXCEPT ![c] = @ \cup {[proc |-> p, op |-> op]}]

(* The effect of one mutating filesystem call with outcome o. *)
Effect(p, op, o) == fs' = o.fs /\ Log(p, op, o.res) /\ Kill(p, op, o.lost)

(* A caller enters one of the two public functions. *)
Begin(p, l) ==
    /\ pc[p] = "idle"
    /\ left[p] > 0
    /\ pc' = [pc EXCEPT ![p] = l]
    /\ left' = [left EXCEPT ![p] = @ - 1]
    /\ prev' = [prev EXCEPT ![p] =
                  IF result[p] = NoResult THEN NoPrev
                  ELSE [valid |-> TRUE, fs0 |-> fs0[p], result |-> result[p]]]
    /\ fs0' = [fs0 EXCEPT ![p] = fs]
    /\ ops' = [ops EXCEPT ![p] = <<>>]
    /\ result' = [result EXCEPT ![p] = NoResult]
    /\ entered' = [entered EXCEPT ![p] = FALSE]
    /\ meta' = [meta EXCEPT ![p] = "-"]
    /\ tmp' = [tmp EXCEPT ![p] = NoPath]
    /\ UNCHANGED <<fs, a, b, api, killer>>

-----------------------------------------------------------------------------
(* The public functions.                                                   *)

(* lib.rs 16-18 without the atomic attempt: a mutant of swap. *)
swap_SkipsPlatform(p) ==
    /\ api[p] = "swap"
    /\ Begin(p, "locate")
    /\ atomic' = [atomic EXCEPT ![p] = "pending"]

(* lib.rs 16-18: swap hands the operands to platform::swap. *)
swap(p) ==
    /\ api[p] = "swap"
    /\ Begin(p, "platform_swap")
    /\ atomic' = [atomic EXCEPT ![p] = "pending"]

(* platform::swap (spec.md 4.1, 6): tryExchange; Handled = true exchanges  *)
(* the two entries in one step, Handled = false falls back to              *)
(* swap_nonatomic, any other error is returned.                            *)
platform_swap(p) ==
    /\ pc[p] = "platform_swap"
    /\ \/ /\ a[p] \in DOMAIN fs /\ b[p] \in DOMAIN fs
          /\ fs[a[p]] # Absent /\ fs[b[p]] # Absent
          /\ fs' = [fs EXCEPT ![a[p]] = fs[b[p]], ![b[p]] = fs[a[p]]]
          /\ atomic' = [atomic EXCEPT ![p] = "handled"]
          /\ Return(p, Ok)
       \/ /\ atomic' = [atomic EXCEPT ![p] = "unsupported"]
          /\ Goto(p, "locate")
          /\ UNCHANGED fs
       \/ /\ atomic' = [atomic EXCEPT ![p] = "error"]
          /\ Return(p, Err("Io", "exchange"))
          /\ UNCHANGED fs
    /\ UNCHANGED <<a, b, api, tmp, meta, entered, ops, fs0, prev, left, killer>>

(* lib.rs 21: a direct call of swap_nonatomic. *)
swap_nonatomic(p) ==
    /\ api[p] = "swap_nonatomic"
    /\ Begin(p, "locate")
    /\ atomic' = [atomic EXCEPT ![p] = "none"]

-----------------------------------------------------------------------------
(* swap_nonatomic, statement by statement.                                 *)

(* lib.rs 27-30: locate the holding slot or fail with "Could not find a    *)
(* parent directory" (io::ErrorKind::NotFound).                            *)
Locate(p) ==
    /\ pc[p] = "locate"
    /\ entered' = [entered EXCEPT ![p] = TRUE]
    /\ IF TmpPath(a[p], b[p]) = NoPath
       THEN Return(p, Err("NotFound", "parent")) /\ UNCHANGED tmp
       ELSE tmp' = [tmp EXCEPT ![p] = TmpPath(a[p], b[p])] /\ Goto(p, "metadata_tmp")
    /\ UNCHANGED <<fs, a, b, api, meta, atomic, ops, fs0, prev, left, killer>>

(* The match on fs::metadata(path) of lib.rs 35-40, 47-58 and 78-83: an    *)
(* entry goes on to its removal, NotFound skips it, another error returns. *)
Probe(p, at, path, op, remove, skip) ==
    /\ pc[p] = at
    /\ \E m \in Metadata(fs, path) :
          /\ Log(p, op, IF m \in {"file", "dir"} THEN "ok" ELSE m)
          /\ meta' = [meta EXCEPT ![p] = IF m \in {"file", "dir"} THEN m ELSE "-"]
          /\ IF m \in {"file", "dir"} THEN Goto(p, remove)
             ELSE IF m = "NotFound" THEN Goto(p, skip)
             ELSE Return(p, Err(m, op))
    /\ UNCHANGED <<fs, a, b, api, tmp, atomic, entered, fs0, prev, left, killer>>

(* The removal arms of the same matches: remove_dir_all for a directory,   *)
(* remove_file otherwise, each followed by `?`.                            *)
Remove(p, at, path, op, next) ==
    /\ pc[p] = at
    /\ \E o \in (IF meta[p] = "dir" THEN RemoveDirAll(fs, path) ELSE RemoveFile(fs, path)) :
          /\ Effect(p, op, o)
          /\ IF o.res = "ok" THEN Goto(p, next) ELSE Return(p, Err(o.res, op))
    /\ UNCHANGED <<a, b, api, tmp, meta, atomic, entered, fs0, prev, left>>

(* lib.rs 35-40 with every arm falling through: a mutant of CleanupProbe. *)
CleanupProbe_NeverRemoves(p) == Probe(p, "metadata_tmp", tmp[p], "metadata_tmp", "rename_a_tmp", "rename_a_tmp")

(* lib.rs 35 and 38-39: probe the holding slot. *)
CleanupProbe(p) == Probe(p, "metadata_tmp", tmp[p], "metadata_tmp", "remove_tmp", "rename_a_tmp")

(* lib.rs 36-37 left out: a mutant of CleanupRemove. *)
CleanupRemove_Skips(p) ==
    /\ pc[p] = "remove_tmp"
    /\ Goto(p, "rename_a_tmp")
    /\ UNCHANGED <<fs, a, b, api, tmp, meta, atomic, entered, ops, fs0, prev, left, killer>>

(* lib.rs 36-37 applied to a: a mutant of CleanupRemove. *)
CleanupRemove_RemovesA(p) == Remove(p, "remove_tmp", a[p], "remove_tmp", "rename_a_tmp")

(* lib.rs 36-37: remove the stale holding slot. *)
CleanupRemove(p) == Remove(p, "remove_tmp", tmp[p], "remove_tmp", "rename_a_tmp")

(* lib.rs 44 without its `?`: a mutant of RenameATmp. *)
RenameATmp_IgnoresError(p) ==
    /\ pc[p] = "rename_a_tmp"
    /\ \E o \in RenameMayLinger(fs, a[p], tmp[p]) :
          /\ Effect(p, "rename_a_tmp", o)
          /\ Goto(p, "metadata_a")
    /\ UNCHANGED <<a, b, api, tmp, meta, atomic, entered, fs0, prev, left>>

(* lib.rs 44: fs::rename(a, &tmp)?. *)
RenameATmp(p) ==
    /\ pc[p] = "rename_a_tmp"
    /\ \E o \in RenameMayLinger(fs, a[p], tmp[p]) :
          /\ Effect(p, "rename_a_tmp", o)
          /\ IF o.res = "ok" THEN Goto(p, "metadata_a")
             ELSE Return(p, Err(o.res, "rename_a_tmp"))
    /\ UNCHANGED <<a, b, api, tmp, meta, atomic, entered, fs0, prev, left>>

(* lib.rs 47-58 without the NotFound arm: a mutant of ClearAProbe. *)
ClearAProbe_NoNotFoundArm(p) ==
    /\ pc[p] = "metadata_a"
    /\ \E m \in Metadata(fs, a[p]) :
          /\ Log(p, "metadata_a", IF m \in {"file", "dir"} THEN "ok" ELSE m)
          /\ meta' = [meta EXCEPT ![p] = IF m \in {"file", "dir"} THEN m ELSE "-"]
          /\ IF m \in {"file", "dir"} THEN Goto(p, "remove_a")
             ELSE Return(p, Err(m, "metadata_a"))
    /\ UNCHANGED <<fs, a, b, api, tmp, atomic, entered, fs0, prev, left, killer>>

(* lib.rs 47 and 56-57: probe the old location of a. *)
ClearAProbe(p) == Probe(p, "metadata_a", a[p], "metadata_a", "remove_a", "metadata_b_log")

(* lib.rs 50-54 applied to the holding slot: a mutant of ClearARemove. *)
ClearARemove_RemovesTmp(p) == Remove(p, "remove_a", tmp[p], "remove_a", "metadata_b_log")

(* lib.rs 50-54: remove what is still at a. *)
ClearARemove(p) == Remove(p, "remove_a", a[p], "remove_a", "metadata_b_log")

(* lib.rs 60-65: the metadata of b is logged; its outcome is ignored. *)
LogB(p) ==
    /\ pc[p] = "metadata_b_log"
    /\ \E m \in Metadata(fs, b[p]) : Log(p, "metadata_b_log", "-")
    /\ Goto(p, "rename_b_a")
    /\ UNCHANGED <<fs, a, b, api, tmp, meta, atomic, entered, fs0, prev, left, killer>>

(* lib.rs 67 with the holding slot as destination: a mutant of RenameBA. *)
RenameBA_OntoTmp(p) ==
    /\ pc[p] = "rename_b_a"
    /\ \E o \in RenameMayLinger(fs, b[p], tmp[p]) :
          /\ Effect(p, "rename_b_a", o)
          /\ Goto(p, IF o.res = "ok" THEN "metadata_b" ELSE "rollback_tmp_a")
    /\ UNCHANGED <<a, b, api, tmp, meta, atomic, entered, fs0, prev, left>>

(* lib.rs 67-69: fs::rename(b, a); its error is logged and dropped. *)
(* lib.rs 67-75 recovering as lib.rs 92-93 does: a mutant of RenameBA. *)
RenameBA_RecoversByUndo(p) ==
    /\ pc[p] = "rename_b_a"
    /\ \E o \in RenameMayLinger(fs, b[p], a[p]) :
          /\ Effect(p, "rename_b_a", o)
          /\ Goto(p, IF o.res = "ok" THEN "metadata_b" ELSE "undo_a_b")
    /\ UNCHANGED <<a, b, api, tmp, meta, atomic, entered, fs0, prev, left>>

RenameBA(p) ==
    /\ pc[p] = "rename_b_a"
    /\ \E o \in RenameMayLinger(fs, b[p], a[p]) :
          /\ Effect(p, "rename_b_a", o)
          /\ Goto(p, IF o.res = "ok" THEN "metadata_b" ELSE "rollback_tmp_a")
    /\ UNCHANGED <<a, b, api, tmp, meta, atomic, entered, fs0, prev, left>>

(* lib.rs 73: return fs::rename(&tmp, a). *)
Rollback(p) ==
    /\ pc[p] = "rollback_tmp_a"
    /\ \E o \in Rename(fs, tmp[p], a[p]) :
          /\ Effect(p, "rollback_tmp_a", o)
          /\ Return(p, IF o.res = "ok" THEN Ok ELSE Err(o.res, "rollback_tmp_a"))
    /\ UNCHANGED <<a, b, api, tmp, meta, atomic, entered, fs0, prev, left>>

(* lib.rs 78 and 81-82: probe the old location of b. *)
ClearBProbe(p) == Probe(p, "metadata_b", b[p], "metadata_b", "remove_b", "rename_tmp_b")

(* lib.rs 79-80 applied to a: a mutant of ClearBRemove. *)
ClearBRemove_RemovesA(p) == Remove(p, "remove_b", a[p], "remove_b", "rename_tmp_b")

(* lib.rs 79-80: remove what is still at b. *)
ClearBRemove(p) == Remove(p, "remove_b", b[p], "remove_b", "rename_tmp_b")

(* lib.rs 86-88: fs::rename(&tmp, b); Ok(()) on success. *)
(* lib.rs 86 leaving its source behind: a mutant of RenameTmpB. *)
RenameTmpB_MayLinger(p) ==
    /\ pc[p] = "rename_tmp_b"
    /\ \E o \in RenameMayLinger(fs, tmp[p], b[p]) :
          /\ Effect(p, "rename_tmp_b", o)
          /\ IF o.res = "ok" THEN Return(p, Ok) ELSE Goto(p, "undo_a_b")
    /\ UNCHANGED <<a, b, api, tmp, meta, atomic, entered, fs0, prev, left>>

(* lib.rs 86 with `?` in place of the recovery arm: a mutant of RenameTmpB. *)
RenameTmpB_NoUndo(p) ==
    /\ pc[p] = "rename_tmp_b"
    /\ \E o \in Rename(fs, tmp[p], b[p]) :
          /\ Effect(p, "rename_tmp_b", o)
          /\ Return(p, IF o.res = "ok" THEN Ok ELSE Err(o.res, "rename_tmp_b"))
    /\ UNCHANGED <<a, b, api, tmp, meta, atomic, entered, fs0, prev, left>>

RenameTmpB(p) ==
    /\ pc[p] = "rename_tmp_b"
    /\ \E o \in Rename(fs, tmp[p], b[p]) :
          /\ Effect(p, "rename_tmp_b", o)
          /\ IF o.res = "ok" THEN Return(p, Ok) ELSE Goto(p, "undo_a_b")
    /\ UNCHANGED <<a, b, api, tmp, meta, atomic, entered, fs0, prev, left>>

(* lib.rs 92: fs::rename(a, b)?. *)
(* lib.rs 92-93 without the first rename: a mutant of UndoAB. *)
UndoAB_Skipped(p) ==
    /\ pc[p] = "undo_a_b"
    /\ Goto(p, "undo_tmp_a")
    /\ UNCHANGED <<fs, ops, killer, a, b, api, tmp, meta, atomic, entered, fs0, prev, left>>

(* lib.rs 92 without `?`: a mutant of UndoAB. *)
UndoAB_IgnoresError(p) ==
    /\ pc[p] = "undo_a_b"
    /\ \E o \in Rename(fs, a[p], b[p]) :
          /\ Effect(p, "undo_a_b", o)
          /\ Goto(p, "undo_tmp_a")
    /\ UNCHANGED <<a, b, api, tmp, meta, atomic, entered, fs0, prev, left>>

UndoAB(p) ==
    /\ pc[p] = "undo_a_b"
    /\ \E o \in Rename(fs, a[p], b[p]) :
          /\ Effect(p, "undo_a_b", o)
          /\ IF o.res = "ok" THEN Goto(p, "undo_tmp_a")
             ELSE Return(p, Err(o.res, "undo_a_b"))
    /\ UNCHANGED <<a, b, api, tmp, meta, atomic, entered, fs0, prev, left>>

(* lib.rs 93 with b as destination: a mutant of UndoTmpA. *)
UndoTmpA_OntoB(p) ==
    /\ pc[p] = "undo_tmp_a"
    /\ \E o \in Rename(fs, tmp[p], b[p]) :
          /\ Effect(p, "undo_tmp_a", o)
          /\ Return(p, IF o.res = "ok" THEN Ok ELSE Err(o.res, "undo_tmp_a"))
    /\ UNCHANGED <<a, b, api, tmp, meta, atomic, entered, fs0, prev, left>>

(* lib.rs 93: fs::rename(&tmp, a) is the value of the function. *)
UndoTmpA(p) ==
    /\ pc[p] = "undo_tmp_a"
    /\ \E o \in Rename(fs, tmp[p], a[p]) :
          /\ Effect(p, "undo_tmp_a", o)
          /\ Return(p, IF o.res = "ok" THEN Ok ELSE Err(o.res, "undo_tmp_a"))
    /\ UNCHANGED <<a, b, api, tmp, meta, atomic, entered, fs0, prev, left>>

Next ==
    \E p \in Procs :
        \/ swap(p)
        \/ platform_swap(p)
        \/ swap_nonatomic(p)
        \/ Locate(p)
        \/ CleanupProbe(p)
        \/ CleanupRemove(p)
        \/ RenameATmp(p)
        \/ ClearAProbe(p)
        \/ ClearARemove(p)
        \/ LogB(p)
        \/ RenameBA(p)
        \/ Rollback(p)
        \/ ClearBProbe(p)
        \/ ClearBRemove(p)
        \/ RenameTmpB(p)
        \/ UndoAB(p)
        \/ UndoTmpA(p)

(* One caller, sequential calls. *)
Spec == Init /\ [][Next]_vars

(* Two callers whose calls interleave at the filesystem calls. *)
SpecConc == InitConc /\ [][Next]_vars

-----------------------------------------------------------------------------
(* Vocabulary of the properties.                                           *)

Returned(p) == pc[p] = "idle" /\ result[p] # NoResult

(* The entries at the operands and at the holding slot, now and when the   *)
(* call began.                                                             *)
NowAt(p, x) == Lookup(fs, x)
WasAt(p, x) == Lookup(fs0[p], x)
Slot(p) == TmpPath(a[p], b[p])

(* Distinct existing operands, neither of them the holding slot. *)
Distinct(p) ==
    /\ a[p] # b[p]
    /\ WasAt(p, a[p]) # Absent /\ WasAt(p, b[p]) # Absent
    /\ a[p] # Slot(p) /\ b[p] # Slot(p)

Exchanged(p) == NowAt(p, a[p]) = WasAt(p, b[p]) /\ NowAt(p, b[p]) = WasAt(p, a[p])
Restored(p) == NowAt(p, a[p]) = WasAt(p, a[p]) /\ NowAt(p, b[p]) = WasAt(p, b[p])

(* Filesystem calls of the current call, by name and outcome. *)
Did(p, op, r) == \E i \in 1..Len(ops[p]) : ops[p][i] = [op |-> op, res |-> r]
Failed(p, op) == \E i \in 1..Len(ops[p]) : ops[p][i].op = op /\ ops[p][i].res \in {"Io", "NotFound"}
IsLast(p, op) == Len(ops[p]) > 0 /\ ops[p][Len(ops[p])].op = op

Probes == {"metadata_tmp", "metadata_a", "metadata_b"}
Renames == {"rename_a_tmp", "rename_b_a", "rollback_tmp_a", "rename_tmp_b", "undo_a_b", "undo_tmp_a"}

(* No call failed; a probe that finds nothing has not failed. *)
NoFailure(p) ==
    \A i \in 1..Len(ops[p]) :
        \/ ops[p][i].res \in {"ok", "-"}
        \/ ops[p][i].op \in Probes /\ ops[p][i].res = "NotFound"

-----------------------------------------------------------------------------
(* C1: whenever swap_nonatomic returns Ok on distinct existing operands    *)
(* that are not the holding slot, a holds what b held and b what a held.   *)
C1_OkMeansExchanged ==
    \A p \in Procs :
        (Returned(p) /\ entered[p] /\ Distinct(p) /\ result[p] = Ok) => Exchanged(p)

(* C2: during and after a call on distinct existing operands that are not  *)
(* the holding slot, the entry a held and the entry b held are each found  *)
(* intact at a, at b or at the holding slot, whichever calls fail.         *)
C2_ContentConserved ==
    \A p \in Procs :
        (entered[p] /\ Distinct(p)) =>
            \A x \in {a[p], b[p]} :
                \E y \in {a[p], b[p], Slot(p)} : NowAt(p, y) = WasAt(p, x)

(* C2 witness: a call ended by a failed undo, a's entry left in the slot.  *)
C2_Witness ==
    /\ Returned(1) /\ entered[1] /\ Distinct(1)
    /\ result[1].at = "undo_a_b"
    /\ NowAt(1, Slot(1)) = WasAt(1, a[1])
    /\ NowAt(1, a[1]) = WasAt(1, b[1])
    /\ NowAt(1, b[1]) = Absent

(* What C3 promises once the evacuation rename a -> holding slot failed.   *)
CleanAfterFailedEvacuation(p) ==
    /\ Returned(p)
    /\ result[p].kind \in {"Io", "NotFound"} /\ result[p].at = "rename_a_tmp"
    /\ IsLast(p, "rename_a_tmp")
    /\ Restored(p)
    /\ NowAt(p, Slot(p)) = Absent

(* C3 as stated: a failed evacuation rename ends the call with that error, *)
(* no further filesystem call, both operands as they were and no entry at  *)
(* the holding slot.                                                       *)
C3_FailedEvacuationIsClean ==
    \A p \in Procs : Failed(p, "rename_a_tmp") => CleanAfterFailedEvacuation(p)

(* C3 amended: the same, for operands that are not the holding slot. *)
C3_FailedEvacuationIsCleanOffSlot ==
    \A p \in Procs :
        (Failed(p, "rename_a_tmp") /\ a[p] # Slot(p) /\ b[p] # Slot(p))
            => CleanAfterFailedEvacuation(p)

(* C3 witness: the evacuation failed after a stale slot had been cleared.  *)
C3_Witness ==
    /\ Failed(1, "rename_a_tmp") /\ Distinct(1)
    /\ WasAt(1, Slot(1)) # Absent
    /\ Did(1, "remove_tmp", "ok")

(* C4: when neither operand has a parent, swap_nonatomic returns the       *)
(* no-parent error without any filesystem call and the filesystem is as    *)
(* it was.                                                                 *)
C4_NoParentIsPure ==
    \A p \in Procs :
        (entered[p] /\ parent(a[p]) = NoPath /\ parent(b[p]) = NoPath) =>
            /\ Returned(p)
            /\ result[p] = Err("NotFound", "parent")
            /\ ops[p] = <<>>
            /\ fs = fs0[p]

(* C4 witness: swap_nonatomic entered with two operands without parent.    *)
C4_Witness ==
    /\ entered[1] /\ atomic[1] = "none"
    /\ parent(a[1]) = NoPath /\ parent(b[1]) = NoPath
    /\ Returned(1)

(* C5: with an entry at the holding slot when the call begins, every       *)
(* rename of the call comes after a successful removal of that entry, and  *)
(* a call in which no filesystem call fails returns Ok with the operands   *)
(* exchanged and no entry at the holding slot.                             *)
C5_StaleSlotTolerated ==
    \A p \in Procs :
        (entered[p] /\ Slot(p) # NoPath /\ WasAt(p, Slot(p)) # Absent) =>
            /\ \A i \in 1..Len(ops[p]) :
                  ops[p][i].op \in Renames =>
                      \E j \in 1..(i - 1) : ops[p][j] = [op |-> "remove_tmp", res |-> "ok"]
            /\ (Returned(p) /\ NoFailure(p)) =>
                  /\ result[p] = Ok
                  /\ Exchanged(p)
                  /\ NowAt(p, Slot(p)) = Absent

(* C5 witness: a call that began with a stale slot and ran without failure. *)
C5_Witness ==
    /\ entered[1] /\ WasAt(1, Slot(1)) # Absent
    /\ Returned(1) /\ NoFailure(1)
    /\ Did(1, "rename_tmp_b", "ok")

(* Two consecutive direct calls of swap_nonatomic that both returned Ok,  *)
(* on distinct operands that existed before the first and are not the      *)
(* holding slot.                                                           *)
TwoOkCalls(p) ==
    /\ api[p] = "swap_nonatomic"
    /\ Returned(p) /\ result[p] = Ok
    /\ prev[p].valid /\ prev[p].result = Ok
    /\ a[p] # b[p] /\ a[p] # Slot(p) /\ b[p] # Slot(p)
    /\ Lookup(prev[p].fs0, a[p]) # Absent /\ Lookup(prev[p].fs0, b[p]) # Absent

(* C6: after two consecutive successful calls swap_nonatomic(a, b), a and  *)
(* b hold what they held before the first call and the holding slot is     *)
(* absent.                                                                 *)
C6_RoundTrip ==
    \A p \in Procs :
        TwoOkCalls(p) =>
            /\ NowAt(p, a[p]) = Lookup(prev[p].fs0, a[p])
            /\ NowAt(p, b[p]) = Lookup(prev[p].fs0, b[p])
            /\ NowAt(p, Slot(p)) = Absent

(* An operand of caller p whose entry at the start of p's call is now at   *)
(* no path of the directory.                                               *)
Gone(c) == \A y \in FsPaths : fs[y].content # c
LostOperands(p) == { x \in {a[p], b[p]} : Gone(WasAt(p, x).content) }

(* The calls that clear or fill the holding slot. *)
SlotWrites == {"remove_tmp", "rename_a_tmp"}

(* C7: when two calls on different operands share the holding slot, an     *)
(* operand's content can come to exist at no path, and whenever it does, a *)
(* copy of it was destroyed by the other call's removal of the stale slot  *)
(* or by the other call's evacuation rename.                               *)
C7_LossOnlyByOtherCallsSlotWrite ==
    \A p \in Procs :
        (entered[p] /\ Distinct(p)) =>
            \A x \in LostOperands(p) :
                \E k \in killer[WasAt(p, x).content] :
                    k.proc # p /\ k.op \in SlotWrites

(* C7 witness: caller 1 is still running, a's content is at no path, the   *)
(* holding slot is empty and caller 2's removal of the stale slot          *)
(* destroyed the content.                                                  *)
C7_Witness ==
    /\ entered[1] /\ Distinct(1) /\ pc[1] # "idle"
    /\ a[1] \in LostOperands(1)
    /\ NowAt(1, Slot(1)) = Absent
    /\ [proc |-> 2, op |-> "remove_tmp"] \in killer[WasAt(1, a[1]).content]

C9_NotFoundNeverSurfaces ==
    \A p \in Procs :
        (Returned(p) /\ entered[p] /\ Slot(p) # NoPath) => result[p].kind # "NotFound"

(* C9 amended: a NotFound error is returned only for the missing parent or *)
(* from the evacuation rename when a is missing (not there when the call   *)
(* began, or a is the holding slot and was just cleared); a missing b or   *)
(* holding slot never makes the call return NotFound.                      *)
C9_NotFoundOnlyForMissingA ==
    \A p \in Procs :
        (Returned(p) /\ entered[p] /\ result[p].kind = "NotFound") =>
            \/ result[p].at = "parent" /\ Slot(p) = NoPath
            \/ /\ result[p].at = "rename_a_tmp"
               /\ WasAt(p, a[p]) = Absent \/ a[p] = Slot(p)

(* C9 witness: a call with a there, b and the holding slot missing, has    *)
(* returned.                                                               *)
C9_Witness ==
    /\ Returned(1) /\ entered[1]
    /\ WasAt(1, a[1]).kind = "file" /\ a[1] # Slot(1)
    /\ WasAt(1, b[1]) = Absent /\ b[1] # Slot(1)
    /\ WasAt(1, Slot(1)) = Absent
    /\ Did(1, "rename_b_a", "NotFound")

(* C10: when the rename b -> a fails and the rollback rename succeeds,     *)
(* swap_nonatomic returns the error of the rename b -> a, with both        *)
(* operands as they were and the holding slot absent.                      *)
C10_RollbackReturnsStep5Error ==
    \A p \in Procs :
        (Returned(p) /\ Distinct(p) /\ Failed(p, "rename_b_a")
            /\ Did(p, "rollback_tmp_a", "ok")) =>
            /\ result[p].kind \in {"Io", "NotFound"} /\ result[p].at = "rename_b_a"
            /\ Restored(p)
            /\ NowAt(p, Slot(p)) = Absent

(* C11 as stated: after a failed evacuation rename the whole filesystem   *)
(* is as it was when the call began, the holding slot included.            *)
C11_FailedEvacuationLeavesAllUnchanged ==
    \A p \in Procs : (Failed(p, "rename_a_tmp") /\ Returned(p)) => fs = fs0[p]

(* C11 amended: after a failed evacuation rename every path other than the *)
(* holding slot holds what it held when the call began, and the holding    *)
(* slot is absent, whatever it held.                                       *)
C11_FailedEvacuationLeavesAllButSlot ==
    \A p \in Procs :
        Failed(p, "rename_a_tmp") =>
            /\ Returned(p)
            /\ \A y \in FsPaths \ {Slot(p)} : fs[y] = fs0[p][y]
            /\ NowAt(p, Slot(p)) = Absent

(* C11 witness: the evacuation failed in a call that began with a file at  *)
(* the holding slot, and the filesystem differs from the one at entry.     *)
C11_Witness ==
    /\ Failed(1, "rename_a_tmp") /\ Returned(1)
    /\ WasAt(1, Slot(1)) = File("S")
    /\ a[1] = PA /\ b[1] = PB
    /\ fs # fs0[1]

(* Step 7 failed and both undo renames succeeded. *)
UndoneAfterStep7(p) ==
    /\ Returned(p)
    /\ Failed(p, "rename_tmp_b")
    /\ Did(p, "undo_a_b", "ok") /\ Did(p, "undo_tmp_a", "ok")

(* C12 as stated: when the rename holding slot -> b fails and both undo    *)
(* renames succeed, a and b hold their original content and the holding    *)
(* slot is absent.                                                         *)
C12_UndoRestores ==
    \A p \in Procs :
        UndoneAfterStep7(p) => (Restored(p) /\ NowAt(p, Slot(p)) = Absent)

(* C12 amended: the same, when b is not the holding slot. *)
C12_UndoRestoresOffSlot ==
    \A p \in Procs :
        (UndoneAfterStep7(p) /\ b[p] # Slot(p)) =>
            (Restored(p) /\ NowAt(p, Slot(p)) = Absent)

(* C12 witness: step 7 failed on two files and both undo renames succeeded. *)
C12_Witness ==
    /\ UndoneAfterStep7(1) /\ Distinct(1)
    /\ WasAt(1, a[1]) = File("A1") /\ WasAt(1, b[1]) = File("B1")

(* The renames that undo an earlier rename, and the probes and removals of *)
(* the defensive clears of steps 4 and 6.                                  *)
RecoveryRenames == {"rollback_tmp_a", "undo_a_b", "undo_tmp_a"}
DefensiveClears == {"metadata_a", "remove_a", "metadata_b", "remove_b"}
OffSlot(p) == a[p] # Slot(p) /\ b[p] # Slot(p)

(* The engine returned with neither the original nor the exchanged         *)
(* arrangement at a and b.                                                 *)
PartialSwap(p) == Returned(p) /\ entered[p] /\ ~Restored(p) /\ ~Exchanged(p)

(* C13 as stated: a partial-swap end state is reached only when a recovery *)
(* rename failed; every other error return leaves a and b with their       *)
(* original content.                                                       *)
C13_PartialOnlyAfterFailedRecovery ==
    \A p \in Procs :
        /\ PartialSwap(p) => result[p].at \in RecoveryRenames
        /\ (Returned(p) /\ entered[p] /\ result[p] # Ok
              /\ result[p].at \notin RecoveryRenames) => Restored(p)

(* C13 amended: for operands that are not the holding slot, a partial-swap *)
(* end state is reached only when a recovery rename failed or when a probe *)
(* or removal of the defensive clears of steps 4 and 6 failed; every other *)
(* return leaves a and b with their original or their exchanged content.   *)
C13_PartialOnlyAfterFailedRecoveryOrClear ==
    \A p \in Procs :
        (PartialSwap(p) /\ OffSlot(p)) =>
            result[p].at \in RecoveryRenames \cup DefensiveClears

(* C13 witness: the probe of step 6 failed and the call returned its error *)
(* with b's content at a and a's content in the holding slot.              *)
C13_Witness ==
    /\ PartialSwap(1) /\ Distinct(1)
    /\ result[1].at = "metadata_b"
    /\ NowAt(1, a[1]) = WasAt(1, b[1])
    /\ NowAt(1, Slot(1)) = WasAt(1, a[1])

(* The call returned the error of the filesystem call op. *)
ReturnedErrorOf(p, op) ==
    /\ Returned(p)
    /\ result[p].at = op
    /\ Did(p, op, result[p].kind)
    /\ IsLast(p, op)

(* C14: when a recovery rename fails the call returns that rename's error, *)
(* and after a failed first undo rename the second is not attempted.       *)
C14_FailedRecoveryErrorReturned ==
    \A p \in Procs :
        /\ \A op \in RecoveryRenames : Failed(p, op) => ReturnedErrorOf(p, op)
        /\ Failed(p, "undo_a_b") =>
              ~\E i \in 1..Len(ops[p]) : ops[p][i].op = "undo_tmp_a"

(* C14 witness: step 7 failed with NotFound and the first undo rename      *)
(* failed with an I/O error, which is what the call returned.              *)
C14_Witness ==
    /\ Did(1, "rename_tmp_b", "NotFound") /\ Did(1, "undo_a_b", "Io")
    /\ Returned(1) /\ result[1] = Err("Io", "undo_a_b")

(* Step 5 failed and so did its rollback. *)
RollbackFailed(p) == Failed(p, "rename_b_a") /\ Failed(p, "rollback_tmp_a")

(* a is absent, a's original content is in the holding slot, b is as it was. *)
StrandedAfterRollback(p) ==
    /\ NowAt(p, a[p]) = Absent
    /\ NowAt(p, Slot(p)) = WasAt(p, a[p])
    /\ NowAt(p, b[p]) = WasAt(p, b[p])

(* C15 as stated: when the rename b -> a and the rollback both fail, the   *)
(* call ends with a absent, a's original content in the holding slot and   *)
(* b holding its original content.                                         *)
C15_FailedRollbackState ==
    \A p \in Procs : RollbackFailed(p) => (Returned(p) /\ StrandedAfterRollback(p))

(* C15 amended: the same, when b is not the holding slot. *)
C15_FailedRollbackStateOffSlot ==
    \A p \in Procs :
        (RollbackFailed(p) /\ b[p] # Slot(p)) =>
            (Returned(p) /\ StrandedAfterRollback(p))

(* C15 witness: both renames failed on two existing operands. *)
C15_Witness ==
    /\ RollbackFailed(1) /\ Distinct(1) /\ Returned(1)
    /\ NowAt(1, Slot(1)) = Dir("A1")

(* The number of recovery renames attempted in the current call. *)
RecoveryAttempts(p) ==
    Cardinality({i \in 1..Len(ops[p]) : ops[p][i].op \in RecoveryRenames})

(* C16 as stated: no call attempts more than one recovery rename. *)
C16_AtMostOneRecoveryRename ==
    \A p \in Procs : RecoveryAttempts(p) <= 1

(* C16 amended: no call attempts more than two recovery renames; after a   *)
(* failed step 5 the rollback is the only one, and two are attempted only  *)
(* after a failed step 7, the undo a -> b and then holding slot -> a.      *)
C16_AtMostTwoRecoveryRenames ==
    \A p \in Procs :
        /\ RecoveryAttempts(p) <= 2
        /\ Failed(p, "rename_b_a") =>
              \A i \in 1..Len(ops[p]) :
                  ops[p][i].op \in RecoveryRenames => ops[p][i].op = "rollback_tmp_a"
        /\ RecoveryAttempts(p) = 2 =>
              /\ Failed(p, "rename_tmp_b")
              /\ Did(p, "undo_a_b", "ok")
              /\ IsLast(p, "undo_tmp_a")

(* C16 witness: step 7 failed and both undo renames were attempted. *)
C16_Witness ==
    /\ RecoveryAttempts(1) = 2 /\ Distinct(1)
    /\ Failed(1, "rename_tmp_b") /\ Returned(1)

(* Distinct operands, neither of them the holding slot. *)
DistinctOffSlot(p) == a[p] # b[p] /\ OffSlot(p)

(* The probe and the removal of the clear-stale-slot step. *)
StaleSlotClears == {"metadata_tmp", "remove_tmp"}

(* C17 as stated: for distinct operands off the holding slot, after every  *)
(* Ok return and every error return in which no recovery rename failed,    *)
(* the holding slot is absent.                                             *)
C17_SlotGoneUnlessRecoveryFailed ==
    \A p \in Procs :
        (Returned(p) /\ entered[p] /\ DistinctOffSlot(p)
           /\ result[p].at \notin RecoveryRenames) =>
            NowAt(p, Slot(p)) = Absent

(* C17 amended: for distinct operands off the holding slot, the holding    *)
(* slot is absent after every Ok return and after a failed evacuation      *)
(* rename; an entry is left there only by a failed recovery rename, a      *)
(* failed clear of the stale slot, or a failed defensive clear of steps 4  *)
(* and 6, and the latter always leaves a's original content there.         *)
C17_SlotGoneUnlessRecoveryOrClearFailed ==
    \A p \in Procs :
        (Returned(p) /\ entered[p] /\ DistinctOffSlot(p)) =>
            /\ NowAt(p, Slot(p)) # Absent =>
                  result[p].at \in RecoveryRenames \cup DefensiveClears \cup StaleSlotClears
            /\ result[p].at \in DefensiveClears =>
                  (NowAt(p, Slot(p)) = WasAt(p, a[p]) /\ WasAt(p, a[p]) # Absent)

(* C17 witness: the removal of step 6 failed, no recovery rename was       *)
(* attempted, and a's original content is in the holding slot.             *)
C17_Witness ==
    /\ Returned(1) /\ Distinct(1)
    /\ result[1] = Err("Io", "remove_b")
    /\ RecoveryAttempts(1) = 0
    /\ NowAt(1, Slot(1)) = WasAt(1, a[1])

(* The caller's previous call ended in a failed recovery rename, on        *)
(* operands off the holding slot.                                          *)
StrandedBefore(p) ==
    /\ prev[p].valid
    /\ prev[p].result.at \in RecoveryRenames
    /\ OffSlot(p)

(* The entry of a when the previous call began. *)
StrandedEntry(p) == Lookup(prev[p].fs0, a[p])

(* That entry is not the remnant of an interrupted removal, which the      *)
(* model does not tell from other remnants, and no other path held a copy  *)
(* of its content when the previous call began.                            *)
StrandedIsOnlyCopy(p) ==
    /\ StrandedEntry(p) # Partial
    /\ \A y \in FsPaths \ {a[p]} :
          Lookup(prev[p].fs0, y).content # StrandedEntry(p).content

(* The current call has attempted a rename, so it is past step 2. *)
PastStaleSlotClear(p) == \E i \in 1..Len(ops[p]) : ops[p][i].op \in Renames

(* C18: a call that follows a call ended by a failed recovery rename       *)
(* begins with a's original content in the holding slot, and once it is    *)
(* past its clear-stale-slot step the removal of that step has destroyed   *)
(* the entry; its content is then at no path, unless another path already  *)
(* held a copy of it when the previous call began.                         *)
C18_NextCallDestroysStranded ==
    \A p \in Procs :
        StrandedBefore(p) =>
            /\ StrandedEntry(p) # Absent
            /\ WasAt(p, Slot(p)) = StrandedEntry(p)
            /\ PastStaleSlotClear(p) =>
                  /\ Did(p, "remove_tmp", "ok")
                  /\ [proc |-> p, op |-> "remove_tmp"] \in killer[StrandedEntry(p).content]
                  /\ StrandedIsOnlyCopy(p) => Gone(StrandedEntry(p).content)

(* C18 witness: the second call removed the directory the first call had   *)
(* stranded in the holding slot, and its content is at no path.            *)
C18_Witness ==
    /\ StrandedBefore(1)
    /\ StrandedEntry(1) = Dir("A1") /\ StrandedIsOnlyCopy(1)
    /\ Did(1, "remove_tmp", "ok")
    /\ Gone("A1")

(* Operand b is the holding slot in the parent of a; both operands exist. *)
SlotIsB(p) ==
    /\ parent(a[p]) # NoPath
    /\ b[p] = join(parent(a[p]), TMP_SWAP_FILE)
    /\ a[p] # b[p]
    /\ WasAt(p, a[p]) # Absent /\ WasAt(p, b[p]) # Absent

(* No filesystem call of the current call failed with an I/O error. *)
NoIoFailure(p) == \A i \in 1..Len(ops[p]) : ops[p][i].res # "Io"

(* C19: when b is the holding slot and both operands exist, a call without *)
(* I/O failure destroys b's content in the clear-stale-slot step and       *)
(* returns Ok with a holding its original content and b absent; what b    *)
(* held is then at no path, unless a held a copy of the same content.      *)
C19_SlotOperandDestroyed ==
    \A p \in Procs :
        (Returned(p) /\ entered[p] /\ SlotIsB(p) /\ NoIoFailure(p)) =>
            /\ result[p] = Ok
            /\ NowAt(p, a[p]) = WasAt(p, a[p])
            /\ NowAt(p, b[p]) = Absent
            /\ [proc |-> p, op |-> "remove_tmp"] \in killer[WasAt(p, b[p]).content]
            /\ WasAt(p, b[p]).content # WasAt(p, a[p]).content =>
                  Gone(WasAt(p, b[p]).content)

(* C19 witness: swap_nonatomic(d/a, d/tmp.fs_swap) on two directories      *)
(* returned Ok after step 7 failed with NotFound and both undo renames     *)
(* succeeded.                                                              *)
C19_Witness ==
    /\ Returned(1) /\ entered[1] /\ SlotIsB(1) /\ NoIoFailure(1)
    /\ WasAt(1, a[1]) = Dir("A1") /\ WasAt(1, b[1]) = Dir("S")
    /\ Did(1, "rename_tmp_b", "NotFound")
    /\ result[1] = Ok

====
